---------------------------- MODULE Spec2Model ----------------------------
(***************************************************************************)
(* A model of npt-timecode (src/index.js): the numeric decomposition       *)
(* functions getComputedTime / getComputedSeconds, the Time entity, and    *)
(* the Range / Timecode entity built from two Times.                       *)
(*                                                                         *)
(* Numbers.  A JavaScript number x is modelled by the record               *)
(* [type |-> "number", n |-> x * Unit], an integer count of ticks, where   *)
(* one tick is 1/Unit and Unit = 1000 * SubMs: every value the model       *)
(* handles is a whole number of 1/SubMs milliseconds, and the arithmetic   *)
(* of the code is carried out exactly on it.  NaN is [type |-> "NaN"].     *)
(*                                                                         *)
(* Text.  A JavaScript string is modelled by the sequence of its           *)
(* characters, so that formatting and parsing are computed digit by digit. *)
(***************************************************************************)
EXTENDS Integers, Sequences, FiniteSets, TLC

VARIABLES
    start,    \* Range#start.value
    stop,     \* Range#stop.value
    origin,   \* the text the Range was made from by Range.from(text), if any
    last,     \* what the last call on the Range was and what it returned
    time,     \* Time#value of a stand-alone Time
    tlast,    \* what the last call on the Time was and what it returned
    calc      \* an evaluation of getComputedSeconds(getComputedTime(v))

vars == <<start, stop, origin, last, time, tlast, calc>>

----------------------------------------------------------------------------
(* Bounds of the model *)

\* ticks per millisecond: the sub-millisecond resolution of the numbers
SubMs == 4

\* the largest whole number of hours in the inputs of the decomposition
MaxHours == 1

\* number inputs of the entities are 0, Stride, 2*Stride .. MaxSamples*Stride
MaxSamples == 3

\* the distance between two number inputs, in milliseconds (00:30:30.115)
StrideMs == 1830115

----------------------------------------------------------------------------
(* Program constants *)

\* const NOW = -1
NOW == -1

MsPerSecond == 1000

SecPerMinute == 60

MinPerHour == 60

\* pad(2, ...)
PadWidth == 2

Unit == MsPerSecond * SubMs

----------------------------------------------------------------------------
(* JavaScript values *)

Num(n) == [type |-> "number", n |-> n]

NaN == [type |-> "NaN"]

Null == [type |-> "null"]

Undefined == [type |-> "undefined"]

Bool(b) == [type |-> "boolean", b |-> b]

Str(s) == [type |-> "string", s |-> s]

\* an array, by the sequence of its items
Arr(items) == [type |-> "array", items |-> items]

\* an object, by the record of its properties
Obj(fields) == [type |-> "object", fields |-> fields]

\* a Time entity as an argument: an object with a `value` property
TimeObj(value) == Obj([value |-> value])

\* x[i], 0-based, of an array
Item(x, i) == IF i + 1 \in DOMAIN x.items THEN x.items[i + 1] ELSE Undefined

\* x.key of an object or an array
Get(x, key) ==
    IF x.type = "object" /\ key \in DOMAIN x.fields THEN x.fields[key] ELSE Undefined

\* key in x, for an object or an array x
In(key, x) == x.type = "object" /\ key \in DOMAIN x.fields

NowValue == Num(NOW * Unit)

IsNumber(x) == x.type = "number"

IsNaN(x) == x.type = "NaN"

\* ToBoolean(x)
Truthy(x) ==
    CASE x.type = "number" -> x.n # 0
      [] x.type = "NaN" -> FALSE
      [] x.type = "null" -> FALSE
      [] x.type = "undefined" -> FALSE
      [] x.type = "boolean" -> x.b
      [] x.type = "string" -> x.s # <<>>
      [] OTHER -> TRUE

\* the number value / den, value in ticks, kept as an exact quotient
Ratio(value, den) == [type |-> "number", n |-> value \div den, q |-> <<value, den>>]

\* a < b on numbers: false as soon as one side is NaN
Lt(a, b) == IsNumber(a) /\ IsNumber(b) /\ a.n < b.n

\* a >= b on numbers: false as soon as one side is NaN
Ge(a, b) == IsNumber(a) /\ IsNumber(b) /\ a.n >= b.n

\* a - b on numbers
Minus(a, b) == IF IsNumber(a) /\ IsNumber(b) THEN Num(a.n - b.n) ELSE NaN

----------------------------------------------------------------------------
(* Text *)

Digits == <<"0", "1", "2", "3", "4", "5", "6", "7", "8", "9">>

IsDigit(c) == \E i \in 1..Len(Digits) : Digits[i] = c

DigitVal(c) == (CHOOSE i \in 1..Len(Digits) : Digits[i] = c) - 1

RECURSIVE NatText(_)
\* String(n) for an integer n >= 0
NatText(n) ==
    IF n < 10 THEN <<Digits[n + 1]>>
    ELSE NatText(n \div 10) \o <<Digits[(n % 10) + 1]>>

RECURSIVE FracText(_, _, _)
\* the digits after the point of f / d, 0 <= f < d, at most k of them
FracText(f, d, k) ==
    IF f = 0 \/ k = 0 THEN <<>>
    ELSE <<Digits[((f * 10) \div d) + 1]>> \o FracText((f * 10) % d, d, k - 1)

\* String(x) for the number x >= 0 that is q[1] / q[2] ticks; a quotient with
\* no finite decimal expansion is cut after 17 digits
RatioText(q) ==
    LET d == q[2] * Unit
    IN IF q[1] % d = 0 THEN NatText(q[1] \div d)
       ELSE NatText(q[1] \div d) \o <<".">> \o FracText(q[1] % d, d, 17)

\* String(x) for a number x >= 0 given in ticks
NumberText(n) == RatioText(<<n, 1>>)

\* s.slice(k)
Slice(s, k) == SubSeq(s, k + 1, Len(s))

RECURSIVE PadStart(_, _, _)
\* s.padStart(n, c)
PadStart(s, n, c) == IF Len(s) >= n THEN s ELSE PadStart(<<c>> \o s, n, c)

\* the first index at which pat occurs in s, or 0
IndexOf(s, pat) ==
    LET hits == {i \in 1..(Len(s) - Len(pat) + 1) : SubSeq(s, i, i + Len(pat) - 1) = pat}
    IN IF hits = {} THEN 0 ELSE CHOOSE i \in hits : \A j \in hits : i <= j

\* s.replace(pat, rep) with a string pattern: the first occurrence only
ReplaceFirst(s, pat, rep) ==
    LET i == IndexOf(s, pat)
    IN IF i = 0 THEN s
       ELSE SubSeq(s, 1, i - 1) \o rep \o SubSeq(s, i + Len(pat), Len(s))

RECURSIVE Split(_, _)
\* s.split(sep) with a one-character separator
Split(s, sep) ==
    LET i == IndexOf(s, <<sep>>)
    IN IF i = 0 THEN <<s>>
       ELSE <<SubSeq(s, 1, i - 1)>> \o Split(SubSeq(s, i + 1, Len(s)), sep)

----------------------------------------------------------------------------
(* Numeric decomposition *)

\* toFixed(3) cutting the digits after the third instead of rounding
ToFixed3Truncating(f) == f \div SubMs

\* 1000 * parseFloat(f.toFixed(3)) for a fraction of 0 <= f < Unit ticks: the
\* nearest count of thousandths, the larger one on a tie
ToFixed3(f) == (2 * f + SubMs) \div (2 * SubMs)

\* getComputedTime(value), value in ticks
getComputedTime(value) ==
    LET \* totalHours = value / 3600, kept as the exact quotient <<value, 3600>>
        hours == value \div (MinPerHour * SecPerMinute * Unit)
        \* floor((totalHours - hours) * 60)
        minutes == (value - hours * MinPerHour * SecPerMinute * Unit) \div (SecPerMinute * Unit)
        rest == value - hours * MinPerHour * SecPerMinute * Unit - minutes * SecPerMinute * Unit
        seconds == rest \div Unit
        milliseconds == ToFixed3(rest - seconds * Unit)
    IN Obj([totalMilliseconds |-> Ratio(value, MsPerSecond),
            totalSeconds |-> Ratio(value, 1),
            totalMinutes |-> Ratio(value, SecPerMinute),
            totalHours |-> Ratio(value, SecPerMinute * MinPerHour),
            milliseconds |-> Num(milliseconds * Unit),
            seconds |-> Num(seconds * Unit),
            minutes |-> Num(minutes * Unit),
            hours |-> Num(hours * Unit),
            ms |-> Num(milliseconds * Unit)])

\* x || 0, for x a number or undefined, in ticks
OrZero(x) == IF Truthy(x) THEN x.n ELSE 0

\* getComputedSeconds(opts), in ticks; the properties of opts that the model
\* passes are numbers
getComputedSeconds(opts) ==
    LET milliseconds == Get(opts, "milliseconds")
        \* { ms = milliseconds }: the default applies when opts.ms is undefined
        ms == IF Get(opts, "ms") = Undefined THEN milliseconds ELSE Get(opts, "ms")
    IN MinPerHour * SecPerMinute * OrZero(Get(opts, "hours"))
       + SecPerMinute * OrZero(Get(opts, "minutes"))
       + OrZero(Get(opts, "seconds"))
       + (OrZero(ms) \div MsPerSecond)

----------------------------------------------------------------------------
(* Time *)

Now == <<"n", "o", "w">>

AllDigits(s) == s # <<>> /\ \A i \in 1..Len(s) : IsDigit(s[i])

RECURSIVE DigitsVal(_)
DigitsVal(s) ==
    IF s = <<>> THEN 0
    ELSE 10 * DigitsVal(SubSeq(s, 1, Len(s) - 1)) + DigitVal(s[Len(s)])

\* the milliseconds of the fields hh, mm and ss.mmm, the last one split at
\* the point into sec; the first two may be missing
ParseFields(fields, n, sec, frac) ==
    IF /\ n <= 3
       /\ \A i \in 1..(n - 1) : AllDigits(fields[i])
       /\ Len(sec) <= 2
       /\ AllDigits(sec[1])
       /\ Len(sec) = 2 => (AllDigits(frac) /\ Len(frac) <= 3)
    THEN [ok |-> TRUE,
          ms |-> (((IF n = 3 THEN DigitsVal(fields[1]) ELSE 0) * MinPerHour
                   + (IF n >= 2 THEN DigitsVal(fields[n - 1]) ELSE 0)) * SecPerMinute
                  + DigitsVal(sec[1])) * MsPerSecond
                 + (IF frac = <<>> THEN 0
                    ELSE DigitsVal(SubSeq(frac \o <<"0", "0">>, 1, 3)))]
    ELSE [ok |-> FALSE, ms |-> 0]

ParseSeconds(fields, sec) ==
    ParseFields(fields, Len(fields), sec, IF Len(sec) = 2 THEN sec[2] ELSE <<>>)

ParseColons(fields) == ParseSeconds(fields, Split(fields[Len(fields)], "."))

\* npt.parse(text) of the normalplaytime package: the milliseconds that the
\* text [[hh:]mm:]ss[.mmm] denotes, or no result for any other text
nptParse(s) == ParseColons(Split(s, ":"))

Returned(value) == [threw |-> FALSE, value |-> value]

\* a TypeError leaves the call without a result
Threw == [threw |-> TRUE, value |-> Undefined]

\* if (parsed) { return new this(parsed/1000) }, else fall through to the
\* last return
FromParsed(parsed) ==
    \* no result and 0 are both falsy
    IF parsed.ok /\ parsed.ms # 0
    \* parsed/1000 seconds is parsed * Unit/1000 ticks
    THEN Returned(Num(parsed.ms * (Unit \div MsPerSecond)))
    ELSE Returned(NaN)

\* Time.from(arg)
TimeFrom(arg) ==
    \* 'number' === typeof arg && !Number.isNaN(arg)
    IF IsNumber(arg) THEN Returned(arg)
    ELSE IF arg.type = "string" THEN
        IF arg.s = Now THEN Returned(NowValue)
        ELSE FromParsed(nptParse(arg.s))
    \* arg && 'number' === typeof arg.value
    ELSE IF Get(arg, "value").type \in {"number", "NaN"} THEN
        Returned(Get(arg, "value"))
    \* arg && ('hours' in arg || 'minutes' in arg || 'seconds' in arg)
    ELSE IF Truthy(arg) THEN
        \* the in operator on a primitive is a TypeError
        IF arg.type = "boolean" THEN Threw
        ELSE IF In("hours", arg) \/ In("minutes", arg) \/ In("seconds", arg)
        THEN Returned(Num(getComputedSeconds(arg)))
        ELSE Returned(NaN)
    ELSE Returned(NaN)

\* Time.now()
TimeNow == TimeFrom(NowValue)

\* Time#isNow
isNow(value) == value = NowValue

\* Time#isValid
isValid(value) == ~IsNaN(value)

\* Time#computed: null for an invalid Time; the cache holds, for a value,
\* the getComputedTime of that value, so a hit and a miss give the same
computed(value) == IF IsNaN(value) THEN Null ELSE getComputedTime(value.n)

Accessors ==
    {"totalHours", "totalMinutes", "totalSeconds", "totalMilliseconds",
     "hours", "minutes", "seconds", "milliseconds", "ms"}

\* the getters totalHours .. ms: this.computed.<name>, a TypeError on null
Property(c, name) ==
    IF c = Null THEN Threw
    ELSE Returned(Get(c, IF name = "ms" THEN "milliseconds" ELSE name))

Accessor(value, name) == Property(computed(value), name)

\* this.value = temp.value, unless making temp threw
Assign(current, temp) ==
    IF temp.threw THEN [threw |-> TRUE, value |-> current] ELSE Returned(temp.value)

\* Time#set(value): the value of the Time after the call, given the one before
TimeSet(current, value) ==
    \* false === Number.isNaN(value) && null != value
    IF ~IsNaN(value) /\ value.type \notin {"null", "undefined"}
    THEN Assign(current, TimeFrom(value))
    ELSE Returned(current)

\* Time#reset()
TimeReset == NaN

\* Time#valueOf()
TimeValueOf(value) == value

RECURSIVE StripTokens(_)
\* s.replace(/(hh|mm|ss|H|M|S)(\:)?/g, '')
StripTokens(s) ==
    IF s = <<>> THEN <<>>
    ELSE LET two == IF Len(s) >= 2 THEN SubSeq(s, 1, 2) ELSE <<>>
             n == IF two \in {<<"h", "h">>, <<"m", "m">>, <<"s", "s">>} THEN 2
                  ELSE IF s[1] \in {"H", "M", "S"} THEN 1
                  ELSE 0
             m == IF n > 0 /\ Len(s) > n /\ s[n + 1] = ":" THEN n + 1 ELSE n
         IN IF n = 0 THEN <<s[1]>> \o StripTokens(Tail(s))
            ELSE StripTokens(SubSeq(s, m + 1, Len(s)))

RECURSIVE Trim(_)
\* s.trim()
Trim(s) ==
    IF s # <<>> /\ s[1] = " " THEN Trim(Tail(s))
    ELSE IF s # <<>> /\ s[Len(s)] = " " THEN Trim(SubSeq(s, 1, Len(s) - 1))
    ELSE s

DefaultFormat == <<"h", "h", ":", "m", "m", ":", "s", "s">>

\* pad(n, s)
pad(n, s) == PadStart(NumberText(s.n), n, "0")

\* computed.ms ? `.${String(computed.ms/1000).slice(2)}` : ''
MsSuffix(c) ==
    IF Truthy(Get(c, "ms"))
    THEN <<".">> \o Slice(NumberText(Get(c, "ms").n \div MsPerSecond), 2)
    ELSE <<>>

\* the chain of replacements of Time#toString on the format fmt, with the
\* computed values c
Format(c, fmt) ==
    LET f1 == ReplaceFirst(fmt, <<"S">>, RatioText(Get(c, "totalSeconds").q))
        f2 == ReplaceFirst(f1, <<"M">>, RatioText(Get(c, "totalMinutes").q))
        f3 == ReplaceFirst(f2, <<"H">>, RatioText(Get(c, "totalHours").q))
        f4 == ReplaceFirst(f3, <<"h", "h">>, pad(PadWidth, Get(c, "hours")))
        f5 == ReplaceFirst(f4, <<"m", "m">>, pad(PadWidth, Get(c, "minutes")))
        f6 == ReplaceFirst(f5, <<"s", "s">>, pad(PadWidth, Get(c, "seconds")) \o MsSuffix(c))
        f7 == ReplaceFirst(f6, <<"h">>, NumberText(Get(c, "hours").n))
        f8 == ReplaceFirst(f7, <<"m">>, NumberText(Get(c, "minutes").n))
        f9 == ReplaceFirst(f8, <<"s">>, NumberText(Get(c, "seconds").n) \o MsSuffix(c))
    IN Trim(StripTokens(f9))

\* Time#toString(format); format is a text or Undefined
TimeToString(value, format) ==
    IF value = NowValue THEN Now
    ELSE IF IsNaN(value) THEN <<>>
    ELSE Format(computed(value), IF Truthy(format) THEN format.s ELSE DefaultFormat)

----------------------------------------------------------------------------
(* Range and Timecode *)

\* the end of Range#set once both ends are set (r1, r2): the ordering check
CheckOrder(t0, r1, r2) ==
    IF r2.threw THEN
        [threw |-> TRUE, start |-> r1.value, stop |-> t0, mid |-> <<r1.value, t0>>]
    \* if (this.stop < this.start) { this.stop.set(Number.NaN) }
    ELSE IF Lt(r2.value, r1.value) THEN
        [threw |-> FALSE, start |-> r1.value, stop |-> TimeSet(r2.value, NaN).value,
         mid |-> <<r1.value, r2.value>>]
    ELSE
        [threw |-> FALSE, start |-> r1.value, stop |-> r2.value,
         mid |-> <<r1.value, r2.value>>]

\* the rest of Range#set once the start is set (r1), taking only a null or
\* undefined stop as absent
SetStopUnlessNullish(s0, t0, b, r1) ==
    IF r1.threw THEN
        [threw |-> TRUE, start |-> s0, stop |-> t0, mid |-> <<s0, t0>>]
    ELSE IF b \in {Null, Undefined} THEN
        [threw |-> FALSE, start |-> r1.value, stop |-> t0, mid |-> <<r1.value, t0>>]
    ELSE CheckOrder(t0, r1, TimeSet(t0, b))

\* the rest of Range#set once the start is set (r1)
SetStop(s0, t0, b, r1) ==
    IF r1.threw THEN
        [threw |-> TRUE, start |-> s0, stop |-> t0, mid |-> <<s0, t0>>]
    \* if (stop)
    ELSE IF ~Truthy(b) THEN
        [threw |-> FALSE, start |-> r1.value, stop |-> t0, mid |-> <<r1.value, t0>>]
    ELSE CheckOrder(t0, r1, TimeSet(t0, b))

\* Range#set(start, stop) on a Range whose ends hold s0 and t0: the ends
\* after the call, and the ends as they were before the ordering check (mid)
RangeSet(s0, t0, a, b) == SetStop(s0, t0, b, TimeSet(s0, a))

\* new Range(start, stop)
RangeNew(a, b) ==
    RangeSet(TimeFrom(Undefined).value, TimeFrom(Undefined).value, a, b)

\* s.split('-') as an array of strings
SplitArray(s) == Arr([i \in 1..Len(Split(s, "-")) |-> Str(Split(s, "-")[i])])

\* the two arguments Range.from(...args) hands to the constructor
ConstructorArgs(args, first) ==
    IF first.type = "array" THEN <<Item(first, 0), Item(first, 1)>>
    ELSE IF first.type = "object" THEN <<Get(first, "start"), Get(first, "stop")>>
    ELSE IF Len(args) = 1 THEN
        IF first.type = "string"
        \* const [ start, stop ] = args[0].split('-')
        THEN <<Item(SplitArray(first.s), 0), Item(SplitArray(first.s), 1)>>
        ELSE <<first, Null>>
    ELSE <<Item(Arr(args), 0), Item(Arr(args), 1)>>

\* new this(start, stop)
RangeNewOf(pair) == RangeNew(pair[1], pair[2])

\* Range.from(...args), args the sequence of the arguments
RangeFrom(args) == RangeNewOf(ConstructorArgs(args, Item(Arr(args), 0)))

\* the text of a Range whose ends s and t format to startText and stopText,
\* asking for stop > start instead of stop >= start
JoinStrict(s, t, startText, stopText) ==
    IF startText # <<>> /\ stopText # <<>> /\ Lt(s, t)
    THEN startText \o <<"-">> \o stopText
    ELSE IF startText # <<>> THEN startText \o <<"-">>
    ELSE IF stopText # <<>> THEN <<"-">> \o stopText
    ELSE <<>>

\* the text of a Range whose ends s and t format to startText and stopText
Join(s, t, startText, stopText) ==
    \* start && stop && this.stop >= this.start
    IF startText # <<>> /\ stopText # <<>> /\ Ge(t, s)
    THEN startText \o <<"-">> \o stopText
    ELSE IF startText # <<>> THEN startText \o <<"-">>
    ELSE IF stopText # <<>> THEN <<"-">> \o stopText
    ELSE <<>>

\* Range#toString(format)
RangeToString(s, t, format) ==
    Join(s, t, TimeToString(s, format), TimeToString(t, format))

\* Range#reset()
RangeReset == [start |-> TimeReset, stop |-> TimeReset]

\* Timecode#valueOf() that tests the stop for "now" before the start
TimecodeValueOfStopFirst(s, t) ==
    IF isNow(t) THEN NowValue
    ELSE IF isNow(s) THEN NowValue
    ELSE IF Lt(s, t) THEN Minus(t, s)
    ELSE s

\* Timecode#valueOf()
TimecodeValueOf(s, t) ==
    IF isNow(s) THEN NowValue
    \* !start.value && stop.isNow
    ELSE IF ~Truthy(s) /\ isNow(t) THEN NowValue
    ELSE IF Lt(s, t) THEN Minus(t, s)
    \* 0 + start
    ELSE s

----------------------------------------------------------------------------
(* Inputs *)

\* the number inputs, in ticks: 0 and the multiples of the stride
Samples == {i * StrideMs * SubMs : i \in 0..MaxSamples}

Numbers == {Num(n) : n \in Samples} \cup {NowValue}

\* the text Time#toString() gives for a number
Canonical(n) == TimeToString(Num(n), Undefined)

Formats ==
    {Undefined,
     Str(<<"m", "m", ":", "s", "s">>),
     Str(<<"h", ":", "m", ":", "s">>),
     Str(<<"h", "h", ":", "m", "m">>)}

\* well-formed NPT texts, each with the ticks it denotes
NptTexts ==
    {<<Canonical(n), n>> : n \in Samples}
    \cup {<<<<"0">>, 0>>,
          <<<<"5">>, 5 * Unit>>,
          <<<<"1", ":", "2", "0">>, 80 * Unit>>,
          <<<<"0", "5", ":", "5", ".", "5">>, 305 * Unit + Unit \div 2>>,
          <<<<"1", ":", "0", "0", ":", "0", "0", ".", "0", "0", "1">>,
            3600 * Unit + SubMs>>}

\* texts that are neither "now" nor NPT texts
OtherTexts ==
    {<<>>, <<"a", "b", "c">>, <<"1", ":">>, <<":", "1">>, <<"1", ".">>,
     <<"1", ":", "2", ":", "3", ":", "4">>, <<"N", "o", "w">>, <<"-", "5">>}

\* the arguments of Time.from and Time#set
TimeArgs ==
    Numbers
    \cup {NaN, Null, Undefined, Bool(TRUE), Bool(FALSE), Arr(<<>>), Obj([other |-> Undefined])}
    \cup {Str(Now)}
    \cup {Str(p[1]) : p \in NptTexts}
    \cup {Str(s) : s \in OtherTexts}
    \cup {TimeObj(v) : v \in Numbers \cup {NaN}}
    \cup {Obj([hours |-> Num(3 * Unit), minutes |-> Num(30 * Unit),
               seconds |-> Num(45 * Unit + 320 * SubMs)]),
          Obj([minutes |-> Num(5 * Unit), seconds |-> Num(5 * Unit + 500 * SubMs)]),
          Obj([seconds |-> Num(30 * Unit), ms |-> Num(250 * Unit)]),
          Obj([milliseconds |-> Num(250 * Unit)]),
          Obj([start |-> Num(0), stop |-> NowValue])}

\* the arguments of Range#set and of the array, object and two-argument
\* forms of Range.from
RangeArgs ==
    Numbers
    \cup {NaN, Null, Undefined, Bool(TRUE), Str(<<>>), Str(Now),
          Str(<<"a", "b", "c">>), TimeObj(NaN)}

\* the items of the array form and the properties of the object form of
\* Range.from
ShapeArgs == Numbers \cup {Undefined, Str(Now), TimeObj(NaN)}

\* the ends of a range text: empty, "now", or a canonical time
EndTexts == {<<>>, Now} \cup {Canonical(n) : n \in Samples}

\* the value an end text denotes
EndValue(s) ==
    IF s = <<>> THEN NaN
    ELSE IF s = Now THEN NowValue
    ELSE Num(CHOOSE n \in Samples : Canonical(n) = s)

RangeTexts == {a \o <<"-">> \o b : a \in EndTexts, b \in EndTexts}

----------------------------------------------------------------------------
(* The Range / Timecode state machine: one Timecode, made by Timecode.from *)
(* and then changed by set and reset and read by toString and valueOf      *)

NoOrigin == [has |-> FALSE, text |-> <<>>]

\* the argument lists of Range.from
FromArgs ==
    {<<>>}
    \cup {<<a>> : a \in RangeArgs}
    \cup {<<Str(s)>> : s \in RangeTexts}
    \cup {<<a, b>> : a \in RangeArgs, b \in RangeArgs}
    \cup {<<Arr(<<a, b>>)>> : a \in ShapeArgs, b \in ShapeArgs}
    \cup {<<Obj([start |-> a, stop |-> b])>> : a \in ShapeArgs, b \in ShapeArgs}

\* the stop that Range.from(...args) hands to the constructor
StopArg(args) == ConstructorArgs(args, Item(Arr(args), 0))[2]

IdleTime == NaN

IdleTimeLast == [op |-> "idle"]

IdleCalc == [pc |-> "idle"]

IdleRange ==
    /\ start = NaN
    /\ stop = NaN
    /\ origin = NoOrigin
    /\ last = [op |-> "idle"]

\* the Timecode that r describes, made from the text `text` if any
Made(r, text) ==
    /\ start = r.start
    /\ stop = r.stop
    /\ origin = text
    /\ last = [op |-> "from", threw |-> r.threw, given |-> FALSE, mid |-> r.mid]

\* timecode = Timecode.from()
Init ==
    /\ Made(RangeFrom(<<>>), NoOrigin)
    /\ time = IdleTime
    /\ tlast = IdleTimeLast
    /\ calc = IdleCalc

\* the outcome r of Timecode.from(...args): a call that throws makes no Timecode
FromDone(args, r) ==
    /\ IF r.threw
       THEN UNCHANGED <<start, stop, origin>>
       ELSE /\ start' = r.start
            /\ stop' = r.stop
            /\ origin' = IF Len(args) = 1 /\ args[1].type = "string"
                         THEN [has |-> TRUE, text |-> args[1].s]
                         ELSE NoOrigin
    /\ last' = [op |-> "from", threw |-> r.threw,
                given |-> Truthy(StopArg(args)), mid |-> r.mid]

\* timecode = Timecode.from(...args)
CallFrom ==
    /\ \E args \in FromArgs : FromDone(args, RangeFrom(args))
    /\ UNCHANGED <<time, tlast, calc>>

\* the outcome r of timecode.set(a, b) on a Timecode whose ends held s0 and
\* t0; of a call with a falsy b the ends before it and the arguments are kept
SetDone(s0, t0, a, b, r) ==
    /\ start' = r.start
    /\ stop' = r.stop
    /\ origin' = NoOrigin
    /\ last' = IF Truthy(b)
               THEN [op |-> "set", threw |-> r.threw, given |-> TRUE, mid |-> r.mid]
               ELSE [op |-> "set", threw |-> r.threw, given |-> FALSE, mid |-> r.mid,
                     before |-> <<s0, t0>>, args |-> <<a, b>>]

\* timecode.set(a, b)
CallSet ==
    /\ \E a \in RangeArgs, b \in RangeArgs : SetDone(start, stop, a, b, RangeSet(start, stop, a, b))
    /\ UNCHANGED <<time, tlast, calc>>

\* timecode.reset()
CallReset ==
    /\ start' = RangeReset.start
    /\ stop' = RangeReset.stop
    /\ origin' = NoOrigin
    /\ last' = [op |-> "reset"]
    /\ UNCHANGED <<time, tlast, calc>>

\* timecode.toString(format)
CallToString ==
    /\ \E format \in Formats :
           last' = [op |-> "toString", format |-> format,
                    out |-> RangeToString(start, stop, format)]
    /\ UNCHANGED <<start, stop, origin, time, tlast, calc>>

\* timecode.valueOf()
CallValueOf ==
    /\ last' = [op |-> "valueOf", result |-> TimecodeValueOf(start, stop)]
    /\ UNCHANGED <<start, stop, origin, time, tlast, calc>>

Next == CallFrom \/ CallSet \/ CallReset \/ CallToString \/ CallValueOf

Spec == Init /\ [][Next]_vars

----------------------------------------------------------------------------
(* The Time state machine: one Time, made by Time.from or Time.now and     *)
(* then changed by set and reset and read by its accessors and toString    *)

Reads == Accessors \cup {"computed", "isNow", "isValid", "valueOf"}

\* time.<name>, or time.valueOf()
Read(value, name) ==
    CASE name = "computed" -> Returned(computed(value))
      [] name = "isNow" -> Returned(Bool(isNow(value)))
      [] name = "isValid" -> Returned(Bool(isValid(value)))
      [] name = "valueOf" -> Returned(TimeValueOf(value))
      [] OTHER -> Accessor(value, name)

InitTime ==
    /\ IdleRange
    /\ time = TimeFrom(Undefined).value
    /\ tlast = [op |-> "from", arg |-> Undefined, threw |-> FALSE]
    /\ calc = IdleCalc

TimeFromDone(arg, r) ==
    /\ time' = IF r.threw THEN time ELSE r.value
    /\ tlast' = [op |-> "from", arg |-> arg, threw |-> r.threw]

TimeSetDone(arg, r) ==
    /\ time' = r.value
    /\ tlast' = [op |-> "set", arg |-> arg, prev |-> time, threw |-> r.threw]

TimeReadDone(name, r) ==
    tlast' = [op |-> "read", name |-> name, threw |-> r.threw, result |-> r.value]

\* time = Time.from(arg); a call that throws makes no Time
TimeCallFrom ==
    /\ \E arg \in TimeArgs : TimeFromDone(arg, TimeFrom(arg))
    /\ UNCHANGED <<start, stop, origin, last, calc>>

\* time = Time.now()
TimeCallNow ==
    /\ time' = TimeNow.value
    /\ tlast' = [op |-> "now", threw |-> TimeNow.threw]
    /\ UNCHANGED <<start, stop, origin, last, calc>>

\* time.set(arg)
TimeCallSet ==
    /\ \E arg \in TimeArgs : TimeSetDone(arg, TimeSet(time, arg))
    /\ UNCHANGED <<start, stop, origin, last, calc>>

\* time.reset()
TimeCallReset ==
    /\ time' = TimeReset
    /\ tlast' = [op |-> "reset", threw |-> FALSE]
    /\ UNCHANGED <<start, stop, origin, last, calc>>

\* time.<name>, time.valueOf()
TimeCallRead ==
    /\ \E name \in Reads : TimeReadDone(name, Read(time, name))
    /\ UNCHANGED <<start, stop, origin, last, time, calc>>

\* time.toString(format)
TimeCallToString ==
    /\ \E format \in Formats :
           tlast' = [op |-> "toString", format |-> format, threw |-> FALSE,
                     result |-> Str(TimeToString(time, format))]
    /\ UNCHANGED <<start, stop, origin, last, time, calc>>

NextTime ==
    \/ TimeCallFrom
    \/ TimeCallNow
    \/ TimeCallSet
    \/ TimeCallReset
    \/ TimeCallRead
    \/ TimeCallToString

SpecTime == InitTime /\ [][NextTime]_vars

----------------------------------------------------------------------------
(* The decomposition of a seconds value and its recomposition *)

\* finite seconds values v >= 0, in ticks: whole hours, the first and the
\* last minute and second of an hour, and every fraction of a second
CalcInputs ==
    {((h * MinPerHour + m) * SecPerMinute + s) * Unit + f :
        h \in 0..MaxHours,
        m \in {0, MinPerHour - 1},
        s \in {0, SecPerMinute - 1},
        f \in 0..(Unit - 1)}

InitCalc ==
    /\ IdleRange
    /\ time = IdleTime
    /\ tlast = IdleTimeLast
    /\ \E v \in CalcInputs : calc = [pc |-> "input", v |-> v]

\* c = getComputedTime(v)
Decompose ==
    /\ calc.pc = "input"
    /\ calc' = [pc |-> "decomposed", v |-> calc.v, c |-> getComputedTime(calc.v)]
    /\ UNCHANGED <<start, stop, origin, last, time, tlast>>

\* total = getComputedSeconds(c)
Recompose ==
    /\ calc.pc = "decomposed"
    /\ calc' = [pc |-> "done", v |-> calc.v, c |-> calc.c,
                total |-> getComputedSeconds(calc.c)]
    /\ UNCHANGED <<start, stop, origin, last, time, tlast>>

NextCalc == Decompose \/ Recompose

SpecCalc == InitCalc /\ [][NextCalc]_vars

----------------------------------------------------------------------------
(* Properties *)

\* both ends are numbers other than "now" and the stop is before the start
Inverted(s, t) ==
    /\ IsNumber(s) /\ IsNumber(t)
    /\ s # NowValue /\ t # NowValue
    /\ t.n < s.n

\* C1: when Range#set(start, stop) is called with a truthy stop and, once both
\* ends have been set, the stop is numerically less than the start, then on
\* return the stop is Invalid (NaN) and the start holds its newly set value.
C1_SetInvalidatesStop ==
    (last.op = "set" /\ ~last.threw /\ last.given /\ Lt(last.mid[2], last.mid[1]))
        => (IsNaN(stop) /\ ~isValid(stop) /\ start = last.mid[1])

\* C2: no sequence of Range.from, Range#set and Range#reset calls leads to a
\* Range whose ends are both valid numbers other than "now" with
\* stop.value < start.value.
C2_NeverInverted == ~Inverted(start, stop)

\* the text C3 as stated gives a Range whose ends s and t format to a and b
AsStated(s, t, a, b) ==
    IF a # <<>> /\ b # <<>> /\ Ge(t, s) THEN a \o <<"-">> \o b
    ELSE IF a # <<>> /\ b = <<>> THEN a \o <<"-">>
    ELSE IF a = <<>> /\ b # <<>> THEN <<"-">> \o b
    ELSE <<>>

\* C3, as stated: Range#toString renders "start-stop" if both ends format to
\* non-empty texts and stop >= start; else "start-" if only the start formats
\* non-empty; else "-stop" if only the stop formats non-empty; else the empty
\* text.
C3_ToStringAsStated ==
    last.op = "toString" =>
        last.out = AsStated(start, stop, TimeToString(start, last.format),
                            TimeToString(stop, last.format))

\* what C3 as amended says of the text out of a Range whose ends s and t
\* format to a and b
Amended(s, t, a, b, out) ==
    /\ (a # <<>> /\ b # <<>> /\ Ge(t, s)) => out = a \o <<"-">> \o b
    /\ (a # <<>> /\ ~(b # <<>> /\ Ge(t, s))) => out = a \o <<"-">>
    /\ (a = <<>> /\ b # <<>>) => out = <<"-">> \o b
    /\ (a = <<>> /\ b = <<>>) => out = <<>>
    /\ (IsNaN(s) /\ IsNaN(t)) => out = <<>>
    /\ Lt(t, s) => out \in {a \o <<"-">>, <<"-">> \o b, <<>>}

\* C3, amended: Range#toString renders "start-stop" if both ends format to
\* non-empty texts and stop >= start; else "start-" if the start formats
\* non-empty, whether or not the stop does; else "-stop" if the stop formats
\* non-empty; else the empty text.  So a Range with both ends invalid renders
\* the empty text, and a stop is never shown after a start that it is
\* numerically before.
C3_ToString ==
    last.op = "toString" =>
        Amended(start, stop, TimeToString(start, last.format),
                TimeToString(stop, last.format), last.out)

\* C3 witness: toString was called on a Range whose ends both format to
\* non-empty texts with the stop before the start, and gave "start-".
C3_Witness ==
    /\ last.op = "toString"
    /\ Inverted(start, stop)
    /\ TimeToString(stop, last.format) # <<>>
    /\ last.out = TimeToString(start, last.format) \o <<"-">>

\* C4: Time.from returns a Time for an argument of any type and never
\* throws; an argument of a type it has no reading for gives an Invalid Time.
C4_FromIsTotal ==
    tlast.op = "from" =>
        /\ ~tlast.threw
        /\ tlast.arg.type \in {"NaN", "null", "undefined", "boolean", "array"}
               => IsNaN(time)

\* C5: Time.from(s) for a text s gives Now for 'now', the Numeric Time of
\* value t for every NPT text that denotes t >= 0 seconds, and an Invalid
\* Time for every other text.
C5_FromText ==
    (tlast.op = "from" /\ tlast.arg.type = "string") =>
        /\ ~tlast.threw
        /\ tlast.arg.s = Now => time = NowValue
        /\ \A p \in NptTexts : tlast.arg.s = p[1] => time = Num(p[2])
        /\ tlast.arg.s \in OtherTexts => IsNaN(time)

\* the range texts 'A-B' of C6: A and B empty, 'now' or canonical, not both
\* empty, and A <= B when both are times
RoundTripTexts ==
    {a \o <<"-">> \o b : <<a, b>> \in
        {e \in EndTexts \X EndTexts :
            /\ ~(e[1] = <<>> /\ e[2] = <<>>)
            /\ ~Inverted(EndValue(e[1]), EndValue(e[2]))}}

\* C6: for every range text 'A-B' with A and B empty, 'now' or a canonical
\* time, not both empty, and A <= B when both are times,
\* Range.from(text).toString() is the text itself.
C6_RoundTrip ==
    (/\ last.op = "toString"
     /\ last.format = Undefined
     /\ origin.has
     /\ origin.text \in RoundTripTexts)
        => last.out = origin.text

\* C7: no read of a Time throws, whether the Time is Invalid, Now or Numeric:
\* computed, the breakdown accessors, valueOf and toString all complete.
C7_ReadsNeverThrow ==
    tlast.op \in {"read", "toString"} => ~tlast.threw

\* C8: Timecode#valueOf is the Now sentinel if the start is Now; else the Now
\* sentinel if the start is Invalid or zero and the stop is Now; else
\* stop - start if start < stop; else the raw value of the start.
C8_ValueOf ==
    last.op = "valueOf" =>
        /\ start = NowValue => last.result = NowValue
        /\ (start # NowValue /\ (IsNaN(start) \/ start = Num(0)) /\ stop = NowValue)
               => last.result = NowValue
        /\ (/\ start # NowValue
            /\ ~((IsNaN(start) \/ start = Num(0)) /\ stop = NowValue)
            /\ IsNumber(start) /\ IsNumber(stop) /\ start.n < stop.n)
               => last.result = Num(stop.n - start.n)
        /\ (/\ start # NowValue
            /\ ~((IsNaN(start) \/ start = Num(0)) /\ stop = NowValue)
            /\ ~(IsNumber(start) /\ IsNumber(stop) /\ start.n < stop.n))
               => last.result = start

\* C8 witness: valueOf was called on a Timecode with a non-zero start and a
\* Now stop, and gave the raw value of the start.
C8_Witness ==
    /\ last.op = "valueOf"
    /\ IsNumber(start) /\ start.n > 0
    /\ stop = NowValue
    /\ last.result = start

\* C9: Time#set(x) leaves the value as it was when x is NaN, null or
\* undefined, and for every other x makes it Time.from(x).value.
C9_Set ==
    tlast.op = "set" =>
        IF tlast.arg \in {NaN, Null, Undefined}
        THEN ~tlast.threw /\ time = tlast.prev
        ELSE /\ ~tlast.threw
             /\ ~TimeFrom(tlast.arg).threw
             /\ time = TimeFrom(tlast.arg).value

\* v rounded to the nearest millisecond, the later one on a tie, in ticks
RoundToMs(v) == ((2 * v + SubMs) \div (2 * SubMs)) * SubMs

\* C10: for every finite seconds value v >= 0,
\* getComputedSeconds(getComputedTime(v)) is v rounded to the millisecond.
C10_RoundTrip ==
    calc.pc = "done" => calc.total = RoundToMs(calc.v)

\* C10 witness: a value of an hour or more whose fraction rounds up to the
\* next whole second has been decomposed and recomposed.
C10_Witness ==
    /\ calc.pc = "done"
    /\ Get(calc.c, "hours").n >= Unit
    /\ Get(calc.c, "minutes").n = (MinPerHour - 1) * Unit
    /\ calc.v % Unit # 0
    /\ calc.total % Unit = 0
    /\ calc.total = RoundToMs(calc.v)

\* C11: Range#set(start, stop) with a falsy stop (0, the empty text, null,
\* undefined or NaN) takes the stop as absent: the start is what Time#set(start)
\* makes of it, the stop is exactly what it was before the call, and the stop
\* is not checked against the start, so it stays even when it is before it.
C11_FalsyStopIsAbsent ==
    (/\ last.op = "set"
     /\ ~last.given
     /\ last.args[2] \in {Num(0), Str(<<>>), Null, Undefined, NaN}) =>
        /\ last.threw = TimeSet(last.before[1], last.args[1]).threw
        /\ start = TimeSet(last.before[1], last.args[1]).value
        /\ stop = last.before[2]
        /\ last.mid[2] = last.before[2]

\* C11 witness: set was called with a literal 0 for the stop on a Timecode
\* with a numeric stop, it moved the start past the stop, and the stop is as
\* it was.
C11_Witness ==
    /\ last.op = "set"
    /\ ~last.given
    /\ last.args[2] = Num(0)
    /\ ~last.threw
    /\ start # last.before[1]
    /\ ~Inverted(last.before[1], last.before[2])
    /\ Inverted(start, stop)
    /\ stop = last.before[2]

\* C12: for every finite seconds value v >= 0, fractions below a millisecond
\* included, the components getComputedTime(v) yields are whole numbers within
\* their units: hours >= 0, 0 <= minutes <= 59, 0 <= seconds <= 59 and
\* 0 <= milliseconds <= 999; rounding the remainder to 3 decimals never gives
\* milliseconds = 1000.
C12_ComponentsInRange ==
    calc.pc \in {"decomposed", "done"} =>
        /\ \A k \in {"hours", "minutes", "seconds", "milliseconds"} :
               IsNumber(Get(calc.c, k)) /\ Get(calc.c, k).n % Unit = 0
        /\ Get(calc.c, "hours").n >= 0
        /\ Get(calc.c, "minutes").n \in 0..((MinPerHour - 1) * Unit)
        /\ Get(calc.c, "seconds").n \in 0..((SecPerMinute - 1) * Unit)
        /\ Get(calc.c, "milliseconds").n \in 0..((MsPerSecond - 1) * Unit)

============================================================================
